---- MODULE Spec2Model ----
(***************************************************************************)
(* Model of the BAAC loader (src/src/baac_loader.py): the signature-based  *)
(* cache and the fork-join aggregation of load_all_years, the per-year     *)
(* loader load_year / find_file, the GPS coordinate parser of              *)
(* process_coordinates, process_timestamp, normalize_columns and           *)
(* clean_numeric_codes; of enrich_batch (src/src/enrichment_processor.py)  *)
(* and of get_infrastructure under its decorators (src/src/enrichers.py).  *)
(*                                                                         *)
(* File names are modelled by the letter case in which they carry the      *)
(* keyword (glob is case-sensitive on the POSIX file systems the program   *)
(* runs on); joblib.hash is modelled as injective, i.e. a signature is     *)
(* the sequence of (year, keyword, size) entries that is hashed.           *)
(***************************************************************************)
EXTENDS Integers, Sequences, FiniteSets, TLC

\* ---------------------------------------------------------------- bounds
YearBase == 2019
MaxYears == 2
MaxSize == 2
MaxVer == 2
MaxEdits == 1

Years == YearBase .. (YearBase + MaxYears - 1)
Sizes == 1 .. MaxSize
Vers == 1 .. MaxVer
Cases == {"lower", "cap", "upper"}

\* the four keywords, in the order the code iterates over them
Keywords == <<"caract", "lieux", "vehicules", "usagers">>
KeywordSet == {Keywords[i] : i \in 1..Len(Keywords)}

VARIABLES
    fs,          \* data_dir: year -> directory (present flag, keyword -> file)
    cache,       \* cache_file on disk
    sigFile,     \* cache_file + ".sig" on disk
    pc,          \* position of the load_all_years call in progress
    callForce,   \* force_reload of the current / last call
    curSig,      \* local current_signature of the current / last call
    years,       \* local sorted list of years
    results,     \* per-year task results (Parallel's result slots)
    completion,  \* order in which the per-year tasks completed
    outcome,     \* how the last call ended
    ret,         \* dataset returned by the last call
    parsed,      \* years load_year was invoked on by the current / last call
    preCache,    \* cache_file as it was when the call started
    preSig,      \* signature file as it was when the call started
    fsAtCall,    \* data_dir as it was when the call started
    phase,       \* what happened to the source files since the cache was written
    prePhase,    \* phase when the current / last call started
    edits,       \* number of changes made to the source files
    rawLat, rawLong,   \* lat / long cells of one accident row, as read
    hasNumAcc,         \* the table has a num_acc column
    midLat, midLong,   \* the cells after parse_gps_coordinate was applied
    outLat, outLong,   \* the cells of the row process_coordinates returns
    cpc,               \* position of process_coordinates on that row
    tCsv,        \* cell texts of the characteristics file, row by row
    tCols,       \* columns the characteristics frame has
    tYear,       \* year argument of process_timestamp
    tOut,        \* heure, minute, an and timestamp of the frame returned
    tpc,         \* position of process_timestamp on that frame
    nRaw,        \* column names of a table as read
    nOnce,       \* column names after normalize_columns
    nTwice,      \* column names after normalize_columns was applied again
    npc,         \* position of the normalisation of that table
    kField,      \* name of a column of a table of a source file
    kCsv,        \* cell texts of that column in the source file
    kOut,        \* the column in the table load_year returns
    kpc,         \* position of the reading and cleaning of that column
    eList,       \* accidents_list: the accident identifiers, in order
    eJobs,       \* n_jobs
    eTask,       \* position of the task of every accident of the list
    eAnswer,     \* what the Overpass call of every task ended on
    eResults,    \* results of Parallel, in the order of the list
    eFinished,   \* order in which the tasks ended
    eStats,      \* local stats of enrich_batch
    eMap,        \* enriched_data, the dict enrich_batch returns
    eOutcome,    \* how the call of enrich_batch ended
    epc,         \* position of the call of enrich_batch
    readFs,      \* year -> the directory as the per-year task of the call read it
    cacheFrom,   \* year -> the directory the dataset in cache_file was parsed from
    changes,     \* number of rewrites of a source file at any moment
    gArgs,       \* (lat/lon point, radius) of the get_infrastructure call
    gTries,      \* runs of the function body made by that call
    gLast,       \* what the service answered to the last run
    gResult,     \* the value the call returns
    gFromStore,  \* the value came from the store of memory.cache
    gOutcome,    \* how the call ended
    gStore,      \* the store of memory.cache: arguments -> stored value
    gpc          \* position of the call

loaderVars == <<fs, cache, sigFile, pc, callForce, curSig, years, results,
                completion, outcome, ret, parsed, preCache, preSig, fsAtCall,
                phase, prePhase, edits>>
coordVars == <<rawLat, rawLong, hasNumAcc, midLat, midLong, outLat, outLong, cpc>>
timeVars == <<tCsv, tCols, tYear, tOut, tpc>>
normVars == <<nRaw, nOnce, nTwice, npc>>
cleanVars == <<kField, kCsv, kOut, kpc>>
enrichVars == <<eList, eJobs, eTask, eAnswer, eResults, eFinished, eStats, eMap, eOutcome, epc>>
raceVars == <<readFs, cacheFrom, changes>>
infraVars == <<gArgs, gTries, gLast, gResult, gFromStore, gOutcome, gStore, gpc>>
vars == <<fs, cache, sigFile, pc, callForce, curSig, years, results,
          completion, outcome, ret, parsed, preCache, preSig, fsAtCall,
          phase, prePhase, edits, rawLat, rawLong, hasNumAcc, midLat, midLong,
          outLat, outLong, cpc,
          tCsv, tCols, tYear, tOut, tpc, nRaw, nOnce, nTwice, npc,
          kField, kCsv, kOut, kpc,
          eList, eJobs, eTask, eAnswer, eResults, eFinished, eStats, eMap, eOutcome, epc,
          readFs, cacheFrom, changes,
          gArgs, gTries, gLast, gResult, gFromStore, gOutcome, gStore, gpc>>

\* ---------------------------------------------------- normalize_columns
\* A column name is the name in lower case and the letter case it is
\* written in; the columns of a table are a sequence of names.
MaxCols == 3

ColumnName(base, case) == [low |-> base, case |-> case]
\* str.lower()
LowerName(n) == [n EXCEPT !.case = "lower"]

\* column_mapping without its entries that map a name to itself
AliasOf == [accident_id |-> "num_acc", agglo |-> "agg"]
Aliases == DOMAIN AliasOf

\* rename_dict: the aliases that are columns of the table
rename_dict(cols) ==
    {old \in Aliases : \E i \in 1..Len(cols) : cols[i] = ColumnName(old, "lower")}

\* df.rename(columns=rename_dict)
Rename(cols, dict) ==
    [i \in 1..Len(cols) |->
        IF cols[i].case = "lower" /\ cols[i].low \in dict
        THEN ColumnName(AliasOf[cols[i].low], "lower")
        ELSE cols[i]]

\* the aliases are renamed before the names are put in lower case
normalize_columns_renameFirst(cols) ==
    LET renamed == Rename(cols, rename_dict(cols))
    IN [i \in 1..Len(cols) |-> LowerName(renamed[i])]

\* normalize_columns(df): the column names of the frame it returns
normalize_columns(cols) ==
    LET lowered == [i \in 1..Len(cols) |-> LowerName(cols[i])]
    IN Rename(lowered, rename_dict(lowered))

\* no name is the name of two columns
Distinct(cols) == \A i, j \in 1..Len(cols) : cols[i] = cols[j] => i = j

\* ------------------------------------------------------------ file system
\* header lines of the source files: the usual one, and one that carries an
\* alias beside the name the alias stands for
PlainHeader == <<ColumnName("num_acc", "cap"), ColumnName("agg", "lower")>>
AliasedHeader == <<ColumnName("num_acc", "cap"), ColumnName("accident_id", "lower")>>
NoFile == [exists |-> FALSE, case |-> "lower", size |-> 0, ver |-> 0, bad |-> FALSE,
           head |-> <<>>]
MkFile(c, s, v, b) == [exists |-> TRUE, case |-> c, size |-> s, ver |-> v, bad |-> b,
                       head |-> PlainHeader]
\* the file f under the header line h
WithHeader(f, h) == [f EXCEPT !.head = h]
NoDir == [present |-> FALSE, files |-> [k \in KeywordSet |-> NoFile]]
MkDir(c) == [present |-> TRUE, files |-> [k \in KeywordSet |-> MkFile(c, 1, 1, FALSE)]]
\* a directory of lower-case files in which the file of keyword k is f
DirWith(k, f) == [present |-> TRUE,
                  files |-> [j \in KeywordSet |->
                               IF j = k THEN f ELSE MkFile("lower", 1, 1, FALSE)]]
Deviations == {NoFile, MkFile("upper", 1, 1, FALSE), MkFile("lower", 1, 1, TRUE),
               MkFile("cap", 1, MaxVer, FALSE),
               WithHeader(MkFile("lower", 1, 1, FALSE), AliasedHeader)}
\* layouts of one year directory the runs start from
DirTemplates == {NoDir, MkDir("lower"), MkDir("cap")}
DirTemplatesWide == DirTemplates \cup {DirWith(k, f) : k \in KeywordSet, f \in Deviations}

\* glob.glob(os.path.join(path, f"*{keyword}*.csv")): the pattern is matched
\* case-sensitively, so only a name carrying the keyword in lower case matches
GlobLower(dir, kw) == dir.present /\ dir.files[kw].exists /\ dir.files[kw].case = "lower"
\* glob with keyword.capitalize()
GlobCap(dir, kw) == dir.present /\ dir.files[kw].exists /\ dir.files[kw].case = "cap"

RECURSIVE SortAsc(_)
SortAsc(S) ==
    IF S = {} THEN <<>>
    ELSE LET m == CHOOSE x \in S : \A z \in S : x <= z
         IN <<m>> \o SortAsc(S \ {m})

\* glob of the year directories, sorted
ListYears(fsys) == SortAsc({y \in Years : fsys[y].present})

\* one year's signature entries, keywords i..4
RECURSIVE SigOfYear(_, _, _)
SigOfYear(fsys, y, i) ==
    IF i > Len(Keywords) THEN <<>>
    ELSE (IF GlobLower(fsys[y], Keywords[i])
          THEN << <<y, Keywords[i], fsys[y].files[Keywords[i]].size>> >>
          ELSE <<>>) \o SigOfYear(fsys, y, i + 1)

RECURSIVE SigOfYears(_, _, _)
SigOfYears(fsys, ys, j) ==
    IF j > Len(ys) THEN <<>>
    ELSE SigOfYear(fsys, ys[j], 1) \o SigOfYears(fsys, ys, j + 1)

get_data_signature(fsys) == SigOfYears(fsys, ListYears(fsys), 1)

\* ------------------------------------------------------------ load_year
TableNames == {"accidents", "lieux", "vehicules", "usagers"}
KwOfTable(t) == IF t = "accidents" THEN "caract" ELSE t

EmptyData == [t \in TableNames |-> <<>>]

\* rows of a source file: a row is <<year, keyword, n>>; versions above 1
\* hold rows out of order and a repeated row
RowsOf(y, kw, v) ==
    IF v = 1 THEN << <<y, kw, 1>> >>
    ELSE << <<y, kw, v>>, <<y, kw, 1>>, <<y, kw, 1>> >>

\* find_file: "found" or FileNotFoundError
find_file(dir, kw) == GlobLower(dir, kw) \/ GlobCap(dir, kw)

NoCols == [t \in TableNames |-> <<>>]
ResNone == [status |-> "none", data |-> EmptyData, cols |-> NoCols]
ResPending == [status |-> "pending", data |-> EmptyData, cols |-> NoCols]
ResRaised == [status |-> "raised", data |-> EmptyData, cols |-> NoCols]

\* the column names of the four frames of a year, after normalize_columns
ColsOfYear(fsys, y) ==
    [t \in TableNames |-> normalize_columns(fsys[y].files[KwOfTable(t)].head)]

\* the body of load_year's try block ends in an exception
YearFails(fsys, y) ==
    \/ \E k \in KeywordSet : ~find_file(fsys[y], k)
    \/ \E k \in KeywordSet : fsys[y].files[k].bad

load_year_nocatch(fsys, y) ==
    IF YearFails(fsys, y) THEN ResRaised
    ELSE [status |-> "ok",
          data |-> [t \in TableNames |->
                      RowsOf(y, KwOfTable(t), fsys[y].files[KwOfTable(t)].ver)],
          cols |-> ColsOfYear(fsys, y)]

load_year(fsys, y) ==
    IF YearFails(fsys, y) THEN ResNone
    ELSE [status |-> "ok",
          data |-> [t \in TableNames |->
                      RowsOf(y, KwOfTable(t), fsys[y].files[KwOfTable(t)].ver)],
          cols |-> ColsOfYear(fsys, y)]

\* ------------------------------------------------------- load_all_years
NoCache == [exists |-> FALSE, data |-> EmptyData]
NoSig == [exists |-> FALSE, val |-> <<>>]

CacheValid_never(force, c, s, cur) == FALSE

CacheValid_ignoreForce(force, c, s, cur) == c.exists /\ s.exists /\ s.val = cur

\* the cache test of load_all_years
CacheValid(force, c, s, cur) ==
    ~force /\ c.exists /\ s.exists /\ s.val = cur

ResultList_byCompletion(ys, res, done) == [i \in 1..Len(done) |-> res[done[i]]]

\* what Parallel(...)(...) returns: the results in the order of the inputs
ResultList(ys, res, done) == [i \in 1..Len(ys) |-> res[ys[i]]]

IsGood(r) == r.status = "ok"

GoodResults_firstOnly(rs) ==
    IF SelectSeq(rs, IsGood) = <<>> THEN <<>> ELSE <<Head(SelectSeq(rs, IsGood))>>

\* the loop "for r in results: if r is not None: append"
GoodResults(rs) == SelectSeq(rs, IsGood)

RECURSIVE ConcatTable(_, _)
ConcatTable(rs, t) ==
    IF rs = <<>> THEN <<>>
    ELSE Head(rs).data[t] \o ConcatTable(Tail(rs), t)

\* pd.concat of each of the four lists
ConcatAll(rs) == [t \in TableNames |-> ConcatTable(rs, t)]

\* pd.concat has to reindex a frame that has two columns of one name: some
\* frame of the list has such columns and another frame has other columns
ColumnsClash(good) ==
    \E t \in TableNames, i, j \in 1..Len(good) :
        ~Distinct(good[i].cols[t]) /\ good[j].cols[t] # good[i].cols[t]

ConcatRaises_never(rs, good) == FALSE

\* pd.concat raises on an empty list of frames, and on frames it cannot
\* reindex
ConcatRaises(rs, good) == good = <<>> \/ ColumnsClash(good)

AnyRaised(rs) == \E i \in 1..Len(rs) : rs[i].status = "raised"

\* --------------------------------------------------------------- actions
NoFs == [y \in Years |-> NoDir]

LoaderInit(templates) ==
    /\ fs \in [Years -> templates]
    /\ cache = NoCache
    /\ sigFile = NoSig
    /\ pc = "idle"
    /\ callForce = FALSE
    /\ curSig = <<>>
    /\ years = <<>>
    /\ results = [y \in Years |-> ResPending]
    /\ completion = <<>>
    /\ outcome = "none"
    /\ ret = EmptyData
    /\ parsed = {}
    /\ preCache = NoCache
    /\ preSig = NoSig
    /\ fsAtCall = NoFs
    /\ phase = "other"
    /\ prePhase = "other"
    /\ edits = 0

\* load_all_years up to the start of the parallel tasks
Call(force) ==
    /\ pc = "idle"
    /\ callForce' = force
    /\ curSig' = get_data_signature(fs)
    /\ preCache' = cache
    /\ preSig' = sigFile
    /\ fsAtCall' = fs
    /\ prePhase' = phase
    /\ phase' = "other"
    /\ parsed' = {}
    /\ completion' = <<>>
    /\ results' = [y \in Years |-> ResPending]
    /\ IF CacheValid(force, cache, sigFile, get_data_signature(fs))
       THEN /\ ret' = cache.data
            /\ outcome' = "hit"
            /\ years' = <<>>
            /\ pc' = "done"
       ELSE /\ years' = ListYears(fs)
            /\ ret' = EmptyData
            /\ IF ListYears(fs) = <<>>
               THEN outcome' = "raised" /\ pc' = "done"
               ELSE outcome' = "running" /\ pc' = "tasks"
    /\ UNCHANGED <<fs, cache, sigFile, edits>>

\* one per-year task of the pool runs load_year and hands back its result
TaskDone(y) ==
    /\ pc = "tasks"
    /\ \E i \in 1..Len(years) : years[i] = y
    /\ y \notin parsed
    /\ results' = [results EXCEPT ![y] = load_year(fs, y)]
    /\ parsed' = parsed \cup {y}
    /\ completion' = Append(completion, y)
    /\ UNCHANGED <<fs, cache, sigFile, pc, callForce, curSig, years, outcome,
                   ret, preCache, preSig, fsAtCall, phase, prePhase, edits>>

AllJoined_first(ys, done) == Len(done) >= 1

\* Parallel(...)(...) returns when every task of the list has ended
AllJoined(ys, done) == Len(done) = Len(ys)

\* after the join: filter, concatenate, dump the cache file
Aggregate ==
    /\ pc = "tasks"
    /\ AllJoined(years, completion)
    /\ LET rs == ResultList(years, results, completion)
           good == GoodResults(rs)
       IN IF AnyRaised(rs) \/ ConcatRaises(rs, good)
          THEN /\ outcome' = "raised"
               /\ pc' = "done"
               /\ UNCHANGED <<cache, ret>>
          ELSE /\ ret' = ConcatAll(good)
               /\ cache' = [exists |-> TRUE, data |-> ConcatAll(good)]
               /\ pc' = "dumped"
               /\ UNCHANGED outcome
    /\ UNCHANGED <<fs, sigFile, callForce, curSig, years, results, completion,
                   parsed, preCache, preSig, fsAtCall, phase, prePhase, edits>>

\* write the signature file and return
WriteSig ==
    /\ pc = "dumped"
    /\ sigFile' = [exists |-> TRUE, val |-> curSig]
    /\ outcome' = "reloaded"
    /\ phase' = "wrote"
    /\ pc' = "done"
    /\ UNCHANGED <<fs, cache, callForce, curSig, years, results, completion,
                   ret, parsed, preCache, preSig, fsAtCall, prePhase, edits>>

\* the caller has taken the result (or the exception): the locals are gone
Return ==
    /\ pc = "done"
    /\ pc' = "idle"
    /\ callForce' = FALSE
    /\ curSig' = <<>>
    /\ years' = <<>>
    /\ results' = [y \in Years |-> ResPending]
    /\ completion' = <<>>
    /\ outcome' = "none"
    /\ ret' = EmptyData
    /\ parsed' = {}
    /\ preCache' = NoCache
    /\ preSig' = NoSig
    /\ fsAtCall' = NoFs
    /\ prePhase' = "other"
    /\ UNCHANGED <<fs, cache, sigFile, phase, edits>>

\* ------------------------------------------ changes to the source files
Edited(kind) ==
    /\ edits < MaxEdits
    /\ edits' = edits + 1
    /\ phase' = IF phase = "wrote" THEN kind ELSE "other"
    /\ UNCHANGED <<cache, sigFile, pc, callForce, curSig, years, results,
                   completion, outcome, ret, parsed, preCache, preSig,
                   fsAtCall, prePhase>>

Readable(fsys, y) == fsys[y].present /\ ~YearFails(fsys, y)

AddYear(y, c) ==
    /\ pc = "idle"
    /\ ~fs[y].present
    /\ fs' = [fs EXCEPT ![y] = MkDir(c)]
    /\ Edited(IF c \in {"lower", "cap"} THEN "add" ELSE "addUnreadable")

RemoveYear(y) ==
    /\ pc = "idle"
    /\ fs[y].present
    /\ fs' = [fs EXCEPT ![y] = NoDir]
    /\ Edited("remove")

\* a file is rewritten with another byte size: it grows, or shrinks to s
ResizeFile(y, k, s) ==
    /\ pc = "idle"
    /\ fs[y].present /\ fs[y].files[k].exists
    /\ \/ s = fs[y].files[k].size + 1
       \/ s < fs[y].files[k].size /\ fs[y].files[k].size = MaxSize
    /\ fs' = [fs EXCEPT ![y].files[k].size = s]
    /\ Edited(IF Readable(fs, y) THEN "size" ELSE "sizeUnread")

\* a file is rewritten with other rows of the same total byte size
EditContent(y, k, v) ==
    /\ pc = "idle"
    /\ fs[y].present /\ fs[y].files[k].exists
    /\ \/ v = fs[y].files[k].ver + 1
       \/ v < fs[y].files[k].ver /\ fs[y].files[k].ver = MaxVer
    /\ fs' = [fs EXCEPT ![y].files[k].ver = v]
    /\ Edited("content")

\* ------------------------------------------------- process_coordinates
\* A cell is a missing value (NaN) or the text str(value); a text is a
\* sequence of characters.  A coordinate is null or a signed decimal:
\* whole degrees and the fraction digits, trailing zeros dropped.
MaxDigits == 8
MaxIntDigits == 3
MaxFracDigits == 2

LatBound == 90
LongBound == 180
PadWidth == 7
DegreeDigits == 2

AllDigits == {"0", "1", "2", "3", "4", "5", "6", "7", "8", "9"}
DigitVal(c) ==
    CASE c = "0" -> 0 [] c = "1" -> 1 [] c = "2" -> 2 [] c = "3" -> 3
      [] c = "4" -> 4 [] c = "5" -> 5 [] c = "6" -> 6 [] c = "7" -> 7
      [] c = "8" -> 8 [] c = "9" -> 9
IsDigit(c) == c \in AllDigits
IsSpace(c) == c = " "

NullCoord == [null |-> TRUE, neg |-> FALSE, int |-> 0, frac |-> <<>>]
Coord(n, i, f) == [null |-> FALSE, neg |-> n, int |-> i, frac |-> f]

RECURSIVE NumOf(_)
NumOf(ds) == IF ds = <<>> THEN 0 ELSE 10 * NumOf(SubSeq(ds, 1, Len(ds) - 1)) + DigitVal(ds[Len(ds)])

RECURSIVE TrimZeros(_)
TrimZeros(ds) ==
    IF ds # <<>> /\ ds[Len(ds)] = "0" THEN TrimZeros(SubSeq(ds, 1, Len(ds) - 1)) ELSE ds

\* the float written whole "." fraction
FloatOf(whole, fraction) == [int |-> NumOf(whole), frac |-> TrimZeros(fraction)]
IsZero(v) == v.int = 0 /\ v.frac = <<>>
\* the magnitude of v exceeds b
Exceeds(v, b) == v.int > b \/ (v.int = b /\ v.frac # <<>>)

RECURSIVE LStrip(_)
LStrip(str) == IF str # <<>> /\ IsSpace(Head(str)) THEN LStrip(Tail(str)) ELSE str
RECURSIVE RStrip(_)
RStrip(str) ==
    IF str # <<>> /\ IsSpace(str[Len(str)]) THEN RStrip(SubSeq(str, 1, Len(str) - 1)) ELSE str
\* str.strip()
Strip(str) == RStrip(LStrip(str))

LowerChar(c) == CASE c = "N" -> "n" [] c = "A" -> "a" [] c = "O" -> "o"
                  [] c = "E" -> "e" [] c = "X" -> "x" [] OTHER -> c
\* str.lower()
Lower(str) == [i \in 1..Len(str) |-> LowerChar(str[i])]

Has(str, c) == \E i \in 1..Len(str) : str[i] = c
\* str.replace(',', '.')
CommaToDot(str) == [i \in 1..Len(str) |-> IF str[i] = "," THEN "." ELSE str[i]]
\* str.zfill(w)
RECURSIVE ZFill(_, _)
ZFill(ds, w) == IF Len(ds) < w THEN ZFill(<<"0">> \o ds, w) ELSE ds
Prefix(ds, n) == SubSeq(ds, 1, IF Len(ds) < n THEN Len(ds) ELSE n)

\* float(text) for a text of signs, digits, dots and other characters:
\* an optional sign, then digits around exactly one dot, one digit at least
ParseFloat(str) ==
    LET signed == str # <<>> /\ Head(str) \in {"-", "+"}
        body == IF signed THEN Tail(str) ELSE str
        dots == {i \in 1..Len(body) : body[i] = "."}
        wellFormed == /\ \A i \in 1..Len(body) : IsDigit(body[i]) \/ body[i] = "."
                      /\ Cardinality(dots) <= 1
                      /\ \E i \in 1..Len(body) : IsDigit(body[i])
        p == IF dots = {} THEN Len(body) + 1 ELSE CHOOSE i \in dots : TRUE
        v == FloatOf(SubSeq(body, 1, p - 1), SubSeq(body, p + 1, Len(body)))
    IN IF wellFormed
       THEN [ok |-> TRUE, neg |-> signed /\ Head(str) = "-", int |-> v.int, frac |-> v.frac]
       ELSE [ok |-> FALSE, neg |-> FALSE, int |-> 0, frac |-> <<>>]

\* the empty and sentinel texts the parser rejects at once
IsBlank(sv) == sv = <<>> \/ Lower(sv) \in {<<"n", "a", "n">>, <<"n", "o", "n", "e">>, <<"0">>}

\* the modern branch: a text with a decimal separator
ParseModern(sv, bound) ==
    LET f == ParseFloat(CommaToDot(sv))
    IN IF ~f.ok THEN NullCoord
       ELSE IF IsZero(f) \/ Exceeds(f, bound) THEN NullCoord
       ELSE Coord(f.neg /\ ~IsZero(f), f.int, f.frac)

\* the digits the legacy branch decodes
LegacyDigits(sv) ==
    LET is_negative == sv # <<>> /\ Head(sv) = "-"
    IN SelectSeq(IF is_negative THEN Tail(sv) ELSE sv, IsDigit)

\* pads to one digit more than the format has
ParseLegacy_padWide(sv, bound) ==
    LET is_negative == sv # <<>> /\ Head(sv) = "-"
        digits == LegacyDigits(sv)
        padded == ZFill(digits, PadWidth + 1)
        v == FloatOf(Prefix(padded, DegreeDigits), SubSeq(padded, DegreeDigits + 1, PadWidth))
    IN IF digits = <<>> \/ \A i \in 1..Len(digits) : digits[i] = "0" THEN NullCoord
       ELSE IF IsZero(v) \/ Exceeds(v, bound) THEN NullCoord
       ELSE Coord(is_negative, v.int, v.frac)

\* the legacy branch: a compact integer DDMMMMM
ParseLegacy(sv, bound) ==
    LET is_negative == sv # <<>> /\ Head(sv) = "-"
        digits == LegacyDigits(sv)
        padded == ZFill(digits, PadWidth)
        v == FloatOf(Prefix(padded, DegreeDigits), SubSeq(padded, DegreeDigits + 1, PadWidth))
    IN IF digits = <<>> \/ \A i \in 1..Len(digits) : digits[i] = "0" THEN NullCoord
       ELSE IF IsZero(v) \/ Exceeds(v, bound) THEN NullCoord
       ELSE Coord(is_negative, v.int, v.frac)

\* parse_gps_coordinate; coord_name only labels the log lines
parse_gps_coordinate(cell, coord_name) ==
    IF cell.null THEN NullCoord
    ELSE LET sv == Strip(cell.str)
         IN IF IsBlank(sv) THEN NullCoord
            ELSE IF Has(sv, ",") \/ Has(sv, ".") THEN ParseModern(sv, LatBound)
            ELSE ParseLegacy(sv, LatBound)

\* a column of the table after its "apply": NaN when the column is absent
ParsedColumn(cell, coord_name) ==
    IF cell.col THEN parse_gps_coordinate(cell, coord_name) ELSE NullCoord

PairValidation_none(lat, long) == [lat |-> lat, long |-> long]

\* the final validation: both cells are nulled when either is null or out of range
PairValidation(lat, long) ==
    IF lat.null \/ long.null \/ Exceeds(lat, LatBound) \/ Exceeds(long, LongBound)
    THEN [lat |-> NullCoord, long |-> NullCoord]
    ELSE [lat |-> lat, long |-> long]

\* ---- the cells the runs start from
NoCol == [col |-> FALSE, null |-> TRUE, str |-> <<>>]
NaNCell == [col |-> TRUE, null |-> TRUE, str |-> <<>>]
Text(str) == [col |-> TRUE, null |-> FALSE, str |-> str]

InputDigits == {"0", "5", "9"}
RECURSIVE DigitStrings(_)
DigitStrings(n) ==
    IF n = 0 THEN {<<>>}
    ELSE LET shorter == DigitStrings(n - 1)
         IN shorter \cup {<<d>> \o ds : d \in InputDigits, ds \in {x \in shorter : Len(x) = n - 1}}
Signs == {<<>>, <<"-">>}

LegacyTexts == {sg \o ds : sg \in Signs, ds \in DigitStrings(MaxDigits)}
SeparatorTexts ==
    {sg \o a \o <<c>> \o b : sg \in Signs, a \in DigitStrings(MaxIntDigits),
                             c \in {".", ",", " ", "x"}, b \in DigitStrings(MaxFracDigits)}
SpecialTexts ==
    {<<"n", "a", "n">>, <<"N", "a", "N">>, <<"n", "o", "n", "e">>, <<"N", "o", "n", "e">>,
     <<" ">>, <<" ", "5", ".", "5", " ">>, <<" ", "0", " ">>, <<"5", ".", "5", ".", "5">>,
     <<"5", ",", "5", ".", "5">>, <<"-">>, <<".">>, <<"-", " ", "5">>, <<" ", "-", "5">>,
     <<"+", "5", ".", "5">>, <<"5", "-", "5">>,
     <<"5", "0", "5", "5", "7", "3", "7", ".", "0">>}
WideCells == {NaNCell} \cup {Text(x) : x \in LegacyTexts \cup SeparatorTexts \cup SpecialTexts}
FewCells == {NoCol, NaNCell, Text(<<"5", ".", "5">>), Text(<<"5", "0", "5", "5", "7", "3", "7">>)}

CoordIdle ==
    /\ rawLat = NoCol
    /\ rawLong = NoCol
    /\ hasNumAcc = TRUE
    /\ midLat = NullCoord
    /\ midLong = NullCoord
    /\ outLat = NullCoord
    /\ outLong = NullCoord
    /\ cpc = "off"

CoordInit ==
    /\ \/ rawLat \in WideCells /\ rawLong \in FewCells
       \/ rawLat \in FewCells /\ rawLong \in WideCells
    /\ hasNumAcc \in BOOLEAN
    /\ hasNumAcc = FALSE => (rawLat \in FewCells /\ rawLong \in FewCells)
    /\ midLat = NullCoord
    /\ midLong = NullCoord
    /\ outLat = NullCoord
    /\ outLong = NullCoord
    /\ cpc = "raw"

\* process_coordinates on the row
ProcessCoordinates ==
    /\ cpc = "raw"
    /\ hasNumAcc \/ ~(rawLat.col /\ rawLong.col)
    /\ midLat' = ParsedColumn(rawLat, "LAT")
    /\ midLong' = ParsedColumn(rawLong, "LONG")
    /\ outLat' = PairValidation(ParsedColumn(rawLat, "LAT"), ParsedColumn(rawLong, "LONG")).lat
    /\ outLong' = PairValidation(ParsedColumn(rawLat, "LAT"), ParsedColumn(rawLong, "LONG")).long
    /\ cpc' = "done"
    /\ UNCHANGED <<rawLat, rawLong, hasNumAcc>>

\* with both columns present the debug sample selects num_acc: KeyError
ProcessCoordinatesRaises ==
    /\ cpc = "raw"
    /\ ~hasNumAcc /\ rawLat.col /\ rawLong.col
    /\ cpc' = "raised"
    /\ UNCHANGED <<rawLat, rawLong, hasNumAcc, midLat, midLong, outLat, outLong>>

\* ------------------------------------------------- cells of a CSV table
\* pd.read_csv is called without dtype, so every column is typed by what
\* its cells hold: int64 when every cell is an integer literal, float64
\* when cells are numbers and blanks, object (the texts themselves, NaN
\* for the blanks) otherwise.  A value of a frame is one of:
NaNV == [k |-> "nan", neg |-> FALSE, int |-> 0, frac |-> <<>>, s |-> <<>>]
IntV(n, i) == [k |-> "int", neg |-> n, int |-> i, frac |-> <<>>, s |-> <<>>]
FloatV(n, i, f) == [k |-> "float", neg |-> n, int |-> i, frac |-> f, s |-> <<>>]
TextV(str) == [k |-> "text", neg |-> FALSE, int |-> 0, frac |-> <<>>, s |-> str]

DigitChars == <<"0", "1", "2", "3", "4", "5", "6", "7", "8", "9">>
RECURSIVE DigitsOf(_)
\* str(n) of a natural number
DigitsOf(n) == IF n < 10 THEN <<DigitChars[n + 1]>> ELSE DigitsOf(n \div 10) \o <<DigitChars[(n % 10) + 1]>>

AllDigitText(body) == body # <<>> /\ \A i \in 1..Len(body) : IsDigit(body[i])
IsIntLiteral(str) == AllDigitText(IF str # <<>> /\ Head(str) \in {"-", "+"} THEN Tail(str) ELSE str)
SignedInt(minus, n) == IntV(minus /\ n # 0, n)
IntLiteral(str) == SignedInt(Head(str) = "-", NumOf(IF Head(str) \in {"-", "+"} THEN Tail(str) ELSE str))

\* the texts read_csv takes for a missing value
NaTexts == {<<>>, <<"N", "/", "A">>, <<"N", "A">>, <<"n", "a", "n">>, <<"N", "a", "N">>,
            <<"n", "u", "l", "l">>}
IsNaText(str) == str \in NaTexts

\* a column of read_csv: the typed values of the cell texts
FloatOfParsed(f) == FloatV(f.neg /\ ~IsZero(f), f.int, f.frac)
TypedColumn(texts, present, allInt, allNum) ==
    [i \in 1..Len(texts) |->
        IF i \notin present THEN NaNV
        ELSE IF allInt /\ present = 1..Len(texts) THEN IntLiteral(Strip(texts[i]))
        ELSE IF allNum THEN FloatOfParsed(ParseFloat(Strip(texts[i])))
        ELSE TextV(texts[i])]
ReadColumn(texts) ==
    TypedColumn(texts,
                {i \in 1..Len(texts) : ~IsNaText(texts[i])},
                \A i \in 1..Len(texts) : IsNaText(texts[i]) \/ IsIntLiteral(Strip(texts[i])),
                \A i \in 1..Len(texts) : IsNaText(texts[i]) \/ ParseFloat(Strip(texts[i])).ok)

\* astype(str) of a value
AsStr(v) ==
    CASE v.k = "nan" -> <<"n", "a", "n">>
      [] v.k = "int" -> (IF v.neg THEN <<"-">> ELSE <<>>) \o DigitsOf(v.int)
      [] v.k = "float" -> (IF v.neg THEN <<"-">> ELSE <<>>) \o DigitsOf(v.int) \o <<".">>
                          \o (IF v.frac = <<>> THEN <<"0">> ELSE v.frac)
      [] v.k = "text" -> v.s

\* pd.to_numeric(errors="coerce") of a text: a float, NaN when it is no number
NumericOfParsed(f) == IF f.ok THEN FloatOfParsed(f) ELSE NaNV
ToNumeric(str) == NumericOfParsed(ParseFloat(Strip(str)))

\* ---------------------------------------------------- process_timestamp
\* The characteristics table is a frame of MaxRows rows at most with the
\* columns hrmn, an, mois, jour (each present or not); process_timestamp
\* rewrites whole columns, so a cell one step cannot convert raises for
\* the whole frame.
MaxRows == 2
CenturyLimit == 100
Century == 2000
HrmnWidth == 4
FieldWidth == 2

NaT == [null |-> TRUE, y |-> 0, m |-> 0, d |-> 0, h |-> 0, mi |-> 0]
Stamp(y, m, d, h, mi) == [null |-> FALSE, y |-> y, m |-> m, d |-> d, h |-> h, mi |-> mi]

\* str.replace(":", "")
DropColons(str) == SelectSeq(str, LAMBDA c : c # ":")

\* fillna("00:00").astype(str).str.replace(":", "").str.zfill(4)
HrmnText(v) == ZFill(DropColons(IF v.k = "nan" THEN <<"0", "0", ":", "0", "0">> ELSE AsStr(v)), HrmnWidth)

\* str.match(r"[0-1]?[0-9][2-3][0-5][0-9]"): the pattern is looked for at
\* the start of the text and need not reach its end
MatchesAt(str, i, set) == i <= Len(str) /\ str[i] \in set
HrmnMatch(str) ==
    \/ /\ MatchesAt(str, 1, {"0", "1"})
       /\ MatchesAt(str, 2, AllDigits)
       /\ MatchesAt(str, 3, {"2", "3"})
       /\ MatchesAt(str, 4, {"0", "1", "2", "3", "4", "5"})
       /\ MatchesAt(str, 5, AllDigits)
    \/ /\ MatchesAt(str, 1, AllDigits)
       /\ MatchesAt(str, 2, {"2", "3"})
       /\ MatchesAt(str, 3, {"0", "1", "2", "3", "4", "5"})
       /\ MatchesAt(str, 4, AllDigits)

\* hrmn after the texts that do not match were replaced by "0000"
KeptIfMatch(str) == IF HrmnMatch(str) THEN str ELSE <<"0", "0", "0", "0">>
HrmnKept(v) == KeptIfMatch(HrmnText(v))

\* astype(int) of a text: int(text), which raises on anything but an
\* integer literal (blanks around it allowed)
IntOfStripped(str) ==
    IF IsIntLiteral(str) THEN [ok |-> TRUE, v |-> IntLiteral(str)] ELSE [ok |-> FALSE, v |-> NaNV]
IntOfText(str) == IntOfStripped(Strip(str))

\* df["hrmn"].str[:2].astype(int) and df["hrmn"].str[2:].astype(int)
HeureOf(v) == IntOfText(SubSeq(HrmnKept(v), 1, FieldWidth))
MinutePart(kept) == IntOfText(SubSeq(kept, FieldWidth + 1, Len(kept)))
MinuteOf(v) == MinutePart(HrmnKept(v))

\* lambda x: x + 2000 if x < 100 else x; a text cannot be compared with 100
\* (TypeError), NaN compares false and stays
AnOf(v) ==
    CASE v.k = "text" -> [ok |-> FALSE, v |-> NaNV]
      [] v.k = "nan" -> [ok |-> TRUE, v |-> v]
      [] OTHER -> [ok |-> TRUE,
                   v |-> IF v.neg THEN [v EXCEPT !.int = Century - v.int, !.neg = FALSE]
                         ELSE IF v.int < CenturyLimit THEN [v EXCEPT !.int = v.int + Century]
                         ELSE v]

\* fillna(1).astype(int) of a mois / jour cell
DayPartOf(v) ==
    CASE v.k = "nan" -> [ok |-> TRUE, v |-> IntV(FALSE, 1)]
      [] v.k = "text" -> IntOfText(v.s)
      [] OTHER -> [ok |-> TRUE, v |-> IntV(v.neg /\ v.int # 0, v.int)]

\* ---- pd.to_datetime(..., errors="coerce").dt.tz_localize("Europe/Paris")
IsLeap(y) == (y % 4 = 0 /\ y % 100 # 0) \/ y % 400 = 0
DaysIn(y, m) ==
    CASE m \in {1, 3, 5, 7, 8, 10, 12} -> 31
      [] m \in {4, 6, 9, 11} -> 30
      [] m = 2 -> IF IsLeap(y) THEN 29 ELSE 28
      [] OTHER -> 0

\* 0 is Sunday
MonthShift == <<0, 3, 2, 5, 0, 3, 5, 1, 4, 6, 2, 4>>
DayOfWeekFrom(yy, m, d) ==
    (yy + (yy \div 4) - (yy \div 100) + (yy \div 400) + MonthShift[m] + d) % 7
DayOfWeek(y, m, d) == DayOfWeekFrom(IF m < 3 THEN y - 1 ELSE y, m, d)
IsLastSunday(y, m, d) == DayOfWeek(y, m, d) = 0 /\ d + 7 > DaysIn(y, m)

\* wall-clock times Europe/Paris skips (last Sunday of March) or has twice
\* (last Sunday of October): the hour from 02:00 to 02:59
ParisSkipsOrRepeats(y, m, d, h) ==
    m \in {3, 10} /\ h = 2 /\ IsLastSunday(y, m, d)

\* a field of the text handed to to_datetime: w digits exactly
FieldOf(str, w) ==
    IF Len(str) = w /\ \A i \in 1..Len(str) : IsDigit(str[i])
    THEN [ok |-> TRUE, n |-> NumOf(str)]
    ELSE [ok |-> FALSE, n |-> 0]

\* the timestamp of the text an-mois-jour heure:minute, NaT when the text
\* is no date and time of the calendar or the Paris clock does not have it
StampOfFields(y, m, d, h, mi) ==
    IF /\ y.ok /\ m.ok /\ d.ok /\ h.ok /\ mi.ok
       /\ m.n \in 1..12
       /\ d.n \in 1..DaysIn(y.n, m.n)
       /\ h.n <= 23
       /\ mi.n <= 59
       /\ ~ParisSkipsOrRepeats(y.n, m.n, d.n, h.n)
    THEN Stamp(y.n, m.n, d.n, h.n, mi.n)
    ELSE NaT
ToTimestampCoerce(an, mois, jour, heure, minute) ==
    StampOfFields(FieldOf(AsStr(an), 4),
                  FieldOf(ZFill(AsStr(mois), FieldWidth), FieldWidth),
                  FieldOf(ZFill(AsStr(jour), FieldWidth), FieldWidth),
                  FieldOf(ZFill(AsStr(heure), FieldWidth), FieldWidth),
                  FieldOf(ZFill(AsStr(minute), FieldWidth), FieldWidth))

\* errors="raise" in place of "coerce"
StrictOf(ts) == [ok |-> ~ts.null, ts |-> ts]
ToTimestamp_strict(an, mois, jour, heure, minute) ==
    StrictOf(ToTimestampCoerce(an, mois, jour, heure, minute))

\* errors="coerce": never raises
ToTimestamp(an, mois, jour, heure, minute) ==
    [ok |-> TRUE, ts |-> ToTimestampCoerce(an, mois, jour, heure, minute)]

\* ---- the frame
TimeColumns == {"hrmn", "an", "mois", "jour"}
ColumnOf(csv, c) == ReadColumn([i \in 1..Len(csv) |-> csv[i][c]])

\* the columns heure, minute, an and timestamp of row i, and whether a
\* conversion of the row raises
RowOfStamp(heure, minute, an, converted, stamp) ==
    [ok |-> converted /\ stamp.ok,
     heure |-> heure.v, minute |-> minute.v, an |-> an.v, timestamp |-> stamp.ts]
RowOfParts(heure, minute, an, mois, jour, dated) ==
    RowOfStamp(heure, minute, an,
               heure.ok /\ minute.ok /\ an.ok /\ mois.ok /\ jour.ok,
               IF dated /\ heure.ok /\ minute.ok /\ an.ok /\ mois.ok /\ jour.ok
               THEN ToTimestamp(an.v, mois.v, jour.v, heure.v, minute.v)
               ELSE [ok |-> TRUE, ts |-> NaT])
TimestampRow(csv, cols, year, i) ==
    RowOfParts(IF "hrmn" \in cols THEN HeureOf(ColumnOf(csv, "hrmn")[i])
               ELSE [ok |-> TRUE, v |-> IntV(FALSE, 0)],
               IF "hrmn" \in cols THEN MinuteOf(ColumnOf(csv, "hrmn")[i])
               ELSE [ok |-> TRUE, v |-> IntV(FALSE, 0)],
               IF "an" \in cols THEN AnOf(ColumnOf(csv, "an")[i])
               ELSE [ok |-> TRUE, v |-> IntV(FALSE, year)],
               IF {"mois", "jour"} \subseteq cols THEN DayPartOf(ColumnOf(csv, "mois")[i])
               ELSE [ok |-> TRUE, v |-> NaNV],
               IF {"mois", "jour"} \subseteq cols THEN DayPartOf(ColumnOf(csv, "jour")[i])
               ELSE [ok |-> TRUE, v |-> NaNV],
               {"mois", "jour"} \subseteq cols)

\* process_timestamp(df, year): the frame it returns, or that it raises
FrameOf(rows) == [raised |-> \E i \in 1..Len(rows) : ~rows[i].ok, rows |-> rows]
process_timestamp(csv, cols, year) ==
    FrameOf([i \in 1..Len(csv) |-> TimestampRow(csv, cols, year, i)])

\* ---- the frames the runs start from
CsvRow(h, a, m, j) == [hrmn |-> h, an |-> a, mois |-> m, jour |-> j]

HrmnTexts ==
    {<<>>, <<"0", "0", "0", "0">>, <<"1", "4", "5", "0">>, <<"0", "8", "3", "0">>,
     <<"1", "4", ":", "5", "0">>, <<"1", "2", ":", "3", "0">>, <<"1", "2", "3", "0">>,
     <<"0", "2", "3", "0">>, <<"2", "3", "5", "9">>, <<"2", "5", "0", "0">>,
     <<"9", "2", "5", "9">>, <<"9", "3", "0">>, <<"1", "2", "3", "0", "0">>,
     <<"1", "2", "3", "0", "x">>, <<"a", "b", "c">>}
AnTexts == {<<"1", "9">>, <<"2", "0", "2", "0">>, <<"2", "0", "2", "1">>, <<"a", "b", "c">>}
MoisTexts == {<<>>, <<"0">>, <<"2">>, <<"3">>, <<"1", "0">>, <<"1", "3">>, <<"x">>}
JourTexts == {<<>>, <<"0">>, <<"1">>, <<"2", "8">>, <<"2", "9">>, <<"3", "0">>, <<"3", "1">>,
              <<"3", "2">>, <<"x">>}

WideRows == {CsvRow(h, a, m, j) : h \in HrmnTexts, a \in AnTexts, m \in MoisTexts, j \in JourTexts}
FewRows ==
    {CsvRow(<<"1", "2", "3", "0">>, <<"2", "0", "2", "1">>, <<"3">>, <<"2", "8">>),
     CsvRow(<<"0", "2", "3", "0">>, <<"2", "1">>, <<"3">>, <<"2", "8">>),
     CsvRow(<<"1", "4", "5", "0">>, <<"2", "0", "2", "0">>, <<"2">>, <<"3", "0">>)}

RECURSIVE FewFrames(_)
\* the frames of n rows at most taken from FewRows
FewFrames(n) ==
    IF n = 0 THEN {<<>>}
    ELSE FewFrames(n - 1) \cup {Append(f, r) : f \in {x \in FewFrames(n - 1) : Len(x) = n - 1}, r \in FewRows}

TimeIdle ==
    /\ tCsv = <<>>
    /\ tCols = {}
    /\ tYear = YearBase
    /\ tOut = <<>>
    /\ tpc = "off"

\* one row of any content followed by rows of FewRows, every column there;
\* or rows of FewRows with one column missing
TimeInit ==
    /\ \/ /\ \E r \in WideRows, f \in FewFrames(MaxRows - 1) : tCsv = <<r>> \o f
          /\ tCols = TimeColumns
          /\ tYear = YearBase
       \/ /\ tCsv \in FewFrames(MaxRows) \ {<<>>}
          /\ \E c \in TimeColumns : tCols = TimeColumns \ {c}
          /\ tYear \in Years
    /\ tOut = <<>>
    /\ tpc = "raw"

\* process_timestamp returns the frame
ProcessTimestamp ==
    /\ tpc = "raw"
    /\ \E r \in {process_timestamp(tCsv, tCols, tYear)} :
          /\ ~r.raised
          /\ tOut' = r.rows
    /\ tpc' = "done"
    /\ UNCHANGED <<tCsv, tCols, tYear>>

\* a column conversion of process_timestamp raises
ProcessTimestampRaises ==
    /\ tpc = "raw"
    /\ process_timestamp(tCsv, tCols, tYear).raised
    /\ tpc' = "raised"
    /\ UNCHANGED <<tCsv, tCols, tYear, tOut>>

\* ---------------------------------------- inputs of normalize_columns
\* ---- the tables the runs start from: raw names all different
BaseNames == {"num_acc", "accident_id", "agg", "agglo", "lat"}
RawNames == {ColumnName(b, c) : b \in BaseNames, c \in Cases}
RECURSIVE RawHeaders(_)
RawHeaders(n) ==
    IF n = 0 THEN {<<>>}
    ELSE RawHeaders(n - 1) \cup
         {Append(h, c) : h \in {x \in RawHeaders(n - 1) : Len(x) = n - 1}, c \in RawNames}

NormIdle ==
    /\ nRaw = <<>>
    /\ nOnce = <<>>
    /\ nTwice = <<>>
    /\ npc = "off"

NormInit ==
    /\ nRaw \in {h \in RawHeaders(MaxCols) : h # <<>> /\ Distinct(h)}
    /\ nOnce = <<>>
    /\ nTwice = <<>>
    /\ npc = "raw"

\* normalize_columns on the table as read
NormalizeColumns ==
    /\ npc = "raw"
    /\ nOnce' = normalize_columns(nRaw)
    /\ npc' = "once"
    /\ UNCHANGED <<nRaw, nTwice>>

\* normalize_columns on the table it returned
NormalizeAgain ==
    /\ npc = "once"
    /\ nTwice' = normalize_columns(nOnce)
    /\ npc' = "twice"
    /\ UNCHANGED <<nRaw, nOnce>>

\* -------------------------------------------------- clean_numeric_codes
\* One column of a table: the cell texts of the source file, typed by
\* read_csv, then cleaned under the name of the column.
DepWidth == 2
ComWidth == 3

\* str.replace(r"[\(\)\s]", "", regex=True)
DropParensSpaces(str) == SelectSeq(str, LAMBDA c : c \notin {"(", ")", " "})

RECURSIVE RStripChars(_, _)
\* str.rstrip(chars): drops every trailing character that is in chars
RStripChars(str, chars) ==
    IF str # <<>> /\ str[Len(str)] \in chars
    THEN RStripChars(SubSeq(str, 1, Len(str) - 1), chars)
    ELSE str

RECURSIVE DropDotZero(_)
\* str.replace(".0", "", regex=False)
DropDotZero(str) ==
    IF Len(str) < 2 THEN str
    ELSE IF str[1] = "." /\ str[2] = "0" THEN DropDotZero(SubSeq(str, 3, Len(str)))
    ELSE <<str[1]>> \o DropDotZero(Tail(str))

MultiValue == <<"#", "V", "A", "L", "E", "U", "R", "M", "U", "L", "T", "I">>

\* pr, pr1
CleanMarker(v) == ToNumeric(DropParensSpaces(AsStr(v)))
\* the comma is left as it is
CleanWidth_keepComma(v) == ToNumeric(Strip(AsStr(v)))
\* larrout, lartpc
CleanWidth(v) == ToNumeric(CommaToDot(Strip(AsStr(v))))
\* nbv: Series.replace(token, None) puts None where the text is the token
\* (pandas 1.4 and later), and to_numeric gives NaN for None
CleanLanes(v) == IF AsStr(v) = MultiValue THEN NaNV ELSE ToNumeric(AsStr(v))
\* dep
CleanDep(v) == TextV(ZFill(RStripChars(AsStr(v), {".", "0"}), DepWidth))
\* com
CleanCom(v) == TextV(ZFill(DropDotZero(AsStr(v)), ComWidth))
\* num_acc, voie
CleanText(v) == TextV(AsStr(v))

CleanedFields == {"num_acc", "pr", "pr1", "larrout", "lartpc", "nbv", "voie", "dep", "com"}
CleanCell(field, v) ==
    CASE field \in {"num_acc", "voie"} -> CleanText(v)
      [] field \in {"pr", "pr1"} -> CleanMarker(v)
      [] field \in {"larrout", "lartpc"} -> CleanWidth(v)
      [] field = "nbv" -> CleanLanes(v)
      [] field = "dep" -> CleanDep(v)
      [] field = "com" -> CleanCom(v)
      [] OTHER -> v

\* the column of the table load_year returns: read_csv, then
\* clean_numeric_codes (normalize_columns leaves the cells alone)
clean_numeric_codes(field, texts) ==
    [i \in 1..Len(texts) |-> CleanCell(field, ReadColumn(texts)[i])]

\* ---- the columns the runs start from
CellTexts ==
    {<<>>,
     <<"-", "1">>, <<" ", "-", "1", " ">>, <<"(", "1", ")">>, <<"s", "a", "n", "s">>,
     <<"N", "/", "A">>, <<"#", "V", "A", "L", "E", "U", "R", "M", "U", "L", "T", "I">>,
     <<"5", ",", "5">>, <<"5", ".", "5">>, <<"5">>, <<"(", "5", ")">>,
     <<" ", "5", " ">>, <<"1">>, <<"7">>, <<"0", "7">>, <<"7", "5">>, <<"1", "0">>,
     <<"2", "0">>, <<"7", ".", "0">>, <<"1", "0", ".", "0">>, <<"7", "5", ".", "0">>,
     <<"2", "A">>, <<"0", "0", "1", "2">>, <<"1", "2">>, <<"A", "1", "2">>,
     <<"0", "7", "5">>, <<"1", "0", "0">>}
FewTexts == {<<>>, <<"3">>, <<"x">>}
RECURSIVE FewColumns(_)
\* the columns of n cells at most taken from FewTexts
FewColumns(n) ==
    IF n = 0 THEN {<<>>}
    ELSE FewColumns(n - 1) \cup {Append(f, t) : f \in {x \in FewColumns(n - 1) : Len(x) = n - 1}, t \in FewTexts}

CleanIdle ==
    /\ kField = "num_acc"
    /\ kCsv = <<>>
    /\ kOut = <<>>
    /\ kpc = "off"

CleanInit ==
    /\ kField \in CleanedFields
    /\ \E t \in CellTexts, f \in FewColumns(MaxRows - 1) : kCsv = <<t>> \o f
    /\ kOut = <<>>
    /\ kpc = "raw"

\* the column is read and cleaned
CleanNumericCodes ==
    /\ kpc = "raw"
    /\ kOut' = clean_numeric_codes(kField, kCsv)
    /\ kpc' = "done"
    /\ UNCHANGED <<kField, kCsv>>

\* --------------------------------------------------------- enrich_batch
\* accidents_list holds accidents with identifiers all different (they are
\* the documents of the index); every accident is one task run by one of
\* n_jobs threads, and the answer of the Overpass call of a task is data,
\* nothing (None), or an exception.
MaxAcc == 3
MaxJobs == 2
AccidentIds == 1..MaxAcc

NoData == [has |-> FALSE, of |-> 0]
DataOf(a) == [has |-> TRUE, of |-> a]
Answers(a) == {[kind |-> "data", data |-> DataOf(a)],
               [kind |-> "none", data |-> NoData],
               [kind |-> "raise", data |-> NoData]}
NoAnswer == [kind |-> "pending", data |-> NoData]
NoResult == [id |-> 0, data |-> NoData, status |-> "pending"]

\* the exception of the call leaves the task
enrich_accident_nocatch(accident_id, answer) ==
    CASE answer.kind = "raise" -> [id |-> accident_id, data |-> NoData, status |-> "raised"]
      [] answer.kind = "data" -> [id |-> accident_id, data |-> answer.data, status |-> "success"]
      [] OTHER -> [id |-> accident_id, data |-> NoData, status |-> "empty"]

\* enrich_accident: the tuple (accident_id, infra_data, status)
enrich_accident(accident_id, answer) ==
    CASE answer.kind = "raise" -> [id |-> accident_id, data |-> NoData, status |-> "error"]
      [] answer.kind = "data" -> [id |-> accident_id, data |-> answer.data, status |-> "success"]
      [] OTHER -> [id |-> accident_id, data |-> NoData, status |-> "empty"]

Statuses == {"success", "empty", "error"}
NoStats == [s \in Statuses |-> 0]
\* stats[status] += 1 over the results
CountStatus(rs) == [s \in Statuses |-> Cardinality({i \in 1..Len(rs) : rs[i].status = s})]
\* enriched_data[accident_id] = infra_data over the results, in their order
CollectData(rs) ==
    LET withData == {i \in 1..Len(rs) : rs[i].data.has}
        last(a) == CHOOSE i \in withData :
                      rs[i].id = a /\ \A j \in withData : rs[j].id = a => j <= i
    IN [a \in {rs[i].id : i \in withData} |-> rs[last(a)].data]
NoMap == [a \in {} |-> NoData]

RECURSIVE AccidentLists(_)
\* the lists of n accidents at most, identifiers all different
AccidentLists(n) ==
    IF n = 0 THEN {<<>>}
    ELSE AccidentLists(n - 1) \cup
         {Append(l, a) : l \in {x \in AccidentLists(n - 1) : Len(x) = n - 1}, a \in AccidentIds}
NoRepeat(l) == \A i, j \in 1..Len(l) : l[i] = l[j] => i = j

EnrichIdle ==
    /\ eList = <<>>
    /\ eJobs = 1
    /\ eTask = <<>>
    /\ eAnswer = <<>>
    /\ eResults = <<>>
    /\ eFinished = <<>>
    /\ eStats = NoStats
    /\ eMap = NoMap
    /\ eOutcome = "none"
    /\ epc = "off"

EnrichInit ==
    /\ eList \in {l \in AccidentLists(MaxAcc) : NoRepeat(l)}
    /\ eJobs \in 1..MaxJobs
    /\ eTask = [i \in 1..Len(eList) |-> "waiting"]
    /\ eAnswer = [i \in 1..Len(eList) |-> NoAnswer]
    /\ eResults = [i \in 1..Len(eList) |-> NoResult]
    /\ eFinished = <<>>
    /\ eStats = NoStats
    /\ eMap = NoMap
    /\ eOutcome = "none"
    /\ epc = "idle"

\* enrich_batch is called: an empty list is answered at once
EnrichBatch ==
    /\ epc = "idle"
    /\ IF eList = <<>>
       THEN epc' = "done" /\ eOutcome' = "returned"
       ELSE epc' = "tasks" /\ eOutcome' = "running"
    /\ UNCHANGED <<eList, eJobs, eTask, eAnswer, eResults, eFinished, eStats, eMap>>

\* Parallel hands the next accident of the list to a free thread
WorkerStart(i) ==
    /\ epc = "tasks"
    /\ eTask[i] = "waiting"
    /\ \A j \in 1..(i - 1) : eTask[j] # "waiting"
    /\ Cardinality({j \in 1..Len(eList) : eTask[j] = "running"}) < eJobs
    /\ eTask' = [eTask EXCEPT ![i] = "running"]
    /\ UNCHANGED <<eList, eJobs, eAnswer, eResults, eFinished, eStats, eMap, eOutcome, epc>>

\* the task of accident i ends on the given answer of the Overpass call
WorkerDone(i, answer) ==
    /\ epc = "tasks"
    /\ eTask[i] = "running"
    /\ eTask' = [eTask EXCEPT ![i] = "done"]
    /\ eAnswer' = [eAnswer EXCEPT ![i] = answer]
    /\ eResults' = [eResults EXCEPT ![i] = enrich_accident(eList[i], answer)]
    /\ eFinished' = Append(eFinished, i)
    /\ UNCHANGED <<eList, eJobs, eStats, eMap, eOutcome, epc>>

\* every task has ended: Parallel returns the results in the order of the
\* list (or raises the exception of a task), the loop counts and collects
Collect ==
    /\ epc = "tasks"
    /\ \A i \in 1..Len(eList) : eTask[i] = "done"
    /\ IF \E i \in 1..Len(eList) : eResults[i].status = "raised"
       THEN eOutcome' = "raised" /\ UNCHANGED <<eStats, eMap>>
       ELSE /\ eOutcome' = "returned"
            /\ eStats' = CountStatus(eResults)
            /\ eMap' = CollectData(eResults)
    /\ epc' = "done"
    /\ UNCHANGED <<eList, eJobs, eTask, eAnswer, eResults, eFinished>>

DoWorkerStart == \E i \in 1..Len(eList) : WorkerStart(i)
DoWorkerDone == \E i \in 1..Len(eList) : \E answer \in Answers(eList[i]) : WorkerDone(i, answer)

\* ------------------------------- loads, file changes and interruptions
\* The source files change at any moment, also while a call of
\* load_all_years runs, and a call is interrupted (KeyboardInterrupt) while
\* the per-year tasks run or between the dump of the cache file and the
\* write of the signature file.
MaxChanges == 2

\* the file whose size and rows the changes rewrite
ChangedKeyword == "caract"

\* layouts of one year directory the runs start from
RaceTemplates == {NoDir, MkDir("lower")}

RaceIdle ==
    /\ readFs = NoFs
    /\ cacheFrom = NoFs
    /\ changes = 0

\* load_all_years up to the start of the parallel tasks
RaceCall(force) ==
    /\ Call(force)
    /\ readFs' = NoFs
    /\ UNCHANGED <<cacheFrom, changes>>

\* a per-year task reads the files of its year as they are at that moment
RaceTaskDone(y) ==
    /\ TaskDone(y)
    /\ readFs' = [readFs EXCEPT ![y] = fs[y]]
    /\ UNCHANGED <<cacheFrom, changes>>

\* the dump of the cache file: the dataset comes from the files the tasks read
RaceAggregate ==
    /\ Aggregate
    /\ cacheFrom' = IF pc' = "dumped" THEN readFs ELSE cacheFrom
    /\ UNCHANGED <<readFs, changes>>

RaceWriteSig == WriteSig /\ UNCHANGED raceVars

RaceReturn == Return /\ UNCHANGED raceVars

\* KeyboardInterrupt in load_all_years: nothing more is written
Interrupt ==
    /\ pc \in {"tasks", "dumped"}
    /\ pc' = "done"
    /\ outcome' = "interrupted"
    /\ UNCHANGED <<fs, cache, sigFile, callForce, curSig, years, results,
                   completion, ret, parsed, preCache, preSig, fsAtCall,
                   phase, prePhase, edits>>
    /\ UNCHANGED raceVars

\* the file of year y is rewritten with s bytes and other rows
ChangeFile(y, s) ==
    /\ changes < MaxChanges
    /\ fs[y].present /\ fs[y].files[ChangedKeyword].exists
    /\ s # fs[y].files[ChangedKeyword].size
    /\ fs' = [fs EXCEPT ![y].files[ChangedKeyword].size = s,
                        ![y].files[ChangedKeyword].ver = IF s <= MaxVer THEN s ELSE MaxVer]
    /\ changes' = changes + 1
    /\ phase' = "other"
    /\ UNCHANGED <<cache, sigFile, pc, callForce, curSig, years, results,
                   completion, outcome, ret, parsed, preCache, preSig,
                   fsAtCall, prePhase, edits>>
    /\ UNCHANGED <<readFs, cacheFrom>>

DoRaceCall == \E f \in BOOLEAN : RaceCall(f)
DoRaceTask == \E y \in Years : RaceTaskDone(y)
DoChangeFile == \E y \in Years, s \in Sizes : ChangeFile(y, s)

\* ---------------------------------------------------- get_infrastructure
\* OverpassEnricher.get_infrastructure under its decorators: backoff (it
\* calls again when the call raises RequestException, max_tries calls in
\* all) around memory.cache (joblib: the value returned for the arguments
\* is stored and returned from the store afterwards) around the function
\* body.  sleep_and_retry / limits only delay a call and are left out.
MaxPoints == 2
MaxElements == 1

MaxTries == 8
DefaultRadius == 1000
RateLimited == 429
GatewayTimeout == 504
ServerError == 500
StatusOk == 200

\* (lat, lon, radius) of a call
Points == 1..MaxPoints
InfraArgs == {<<p, DefaultRadius>> : p \in Points}

\* what requests.get ends on: a response (status code, number of elements
\* of its JSON body) or an exception of the network
Response(code, n) == [net |-> FALSE, code |-> code, elements |-> n]
NetworkError == [net |-> TRUE, code |-> 0, elements |-> 0]
ServiceAnswers ==
    {NetworkError, Response(RateLimited, 0), Response(GatewayTimeout, 0),
     Response(ServerError, 0)} \cup {Response(StatusOk, n) : n \in 0..MaxElements}
NoServiceAnswer == [net |-> FALSE, code |-> 0, elements |-> 0]

\* the dict of counts (its "total"), or None
NullInfra == [null |-> TRUE, total |-> 0]
InfraOf(n) == [null |-> FALSE, total |-> n]

\* the try block of the function body: it returns a value or an exception
\* of requests leaves it
TryBlock(answer) ==
    IF answer.net THEN [raised |-> TRUE, value |-> NullInfra]
    ELSE IF answer.code = RateLimited THEN [raised |-> TRUE, value |-> NullInfra]
    ELSE IF answer.code = GatewayTimeout THEN [raised |-> FALSE, value |-> NullInfra]
    ELSE IF answer.code # StatusOk THEN [raised |-> TRUE, value |-> NullInfra]
    ELSE [raised |-> FALSE, value |-> InfraOf(answer.elements)]

\* the function body: "except Exception" turns every exception of the try
\* block into the return value None
Caught(r) == IF r.raised THEN [raised |-> FALSE, value |-> NullInfra] ELSE r
get_infrastructure(answer) == Caught(TryBlock(answer))

\* the store of memory.cache
NoEntry == [has |-> FALSE, value |-> NullInfra, from |-> NoServiceAnswer]
Entry(v, answer) == [has |-> TRUE, value |-> v, from |-> answer]

InfraIdle ==
    /\ gArgs = <<0, 0>>
    /\ gTries = 0
    /\ gLast = NoServiceAnswer
    /\ gResult = NullInfra
    /\ gFromStore = FALSE
    /\ gOutcome = "none"
    /\ gStore = [a \in {} |-> NoEntry]
    /\ gpc = "off"

InfraInit ==
    /\ gArgs = <<0, 0>>
    /\ gTries = 0
    /\ gLast = NoServiceAnswer
    /\ gResult = NullInfra
    /\ gFromStore = FALSE
    /\ gOutcome = "none"
    /\ gStore = [a \in InfraArgs |-> NoEntry]
    /\ gpc = "idle"

\* a call of the decorated function: memory.cache looks the arguments up
InfraCall(args) ==
    /\ gpc = "idle"
    /\ gArgs' = args
    /\ gTries' = 0
    /\ gLast' = NoServiceAnswer
    /\ IF gStore[args].has
       THEN /\ gResult' = gStore[args].value
            /\ gFromStore' = TRUE
            /\ gOutcome' = "returned"
            /\ gpc' = "done"
       ELSE /\ gResult' = NullInfra
            /\ gFromStore' = FALSE
            /\ gOutcome' = "none"
            /\ gpc' = "calling"
    /\ UNCHANGED gStore

\* one run of the function body on what the service answers; memory.cache
\* stores the value it returns, backoff calls again on RequestException
\* until max_tries runs were made and lets the exception through then
InfraAttempt(answer) ==
    /\ gpc = "calling"
    /\ gTries' = gTries + 1
    /\ gLast' = answer
    /\ \E r \in {get_infrastructure(answer)} :
          IF r.raised
          THEN /\ IF gTries + 1 < MaxTries
                  THEN gpc' = "calling" /\ gOutcome' = "none"
                  ELSE gpc' = "done" /\ gOutcome' = "raised"
               /\ UNCHANGED <<gResult, gStore>>
          ELSE /\ gStore' = [gStore EXCEPT ![gArgs] = Entry(r.value, answer)]
               /\ gResult' = r.value
               /\ gOutcome' = "returned"
               /\ gpc' = "done"
    /\ UNCHANGED <<gArgs, gFromStore>>

\* the caller has the value
InfraReturn ==
    /\ gpc = "done"
    /\ gpc' = "idle"
    /\ gArgs' = <<0, 0>>
    /\ gTries' = 0
    /\ gLast' = NoServiceAnswer
    /\ gResult' = NullInfra
    /\ gFromStore' = FALSE
    /\ gOutcome' = "none"
    /\ UNCHANGED gStore

DoInfraCall == \E args \in InfraArgs : InfraCall(args)
DoInfraAttempt == \E answer \in ServiceAnswers : InfraAttempt(answer)

\* ------------------------------------------------------- specifications
Init == LoaderInit(DirTemplates) /\ CoordIdle /\ TimeIdle /\ NormIdle /\ CleanIdle /\ EnrichIdle /\ RaceIdle /\ InfraIdle

DoCall == \E f \in BOOLEAN : Call(f)
DoTask == \E y \in Years : TaskDone(y)
DoAddYear == \E y \in Years, c \in Cases : AddYear(y, c)
DoRemoveYear == \E y \in Years : RemoveYear(y)
DoResize == \E y \in Years, k \in KeywordSet, s \in Sizes : ResizeFile(y, k, s)
DoEdit == \E y \in Years, k \in KeywordSet, v \in Vers : EditContent(y, k, v)

\* one call of load_all_years
LoadNext ==
    \/ DoCall
    \/ DoTask
    \/ Aggregate
    \/ WriteSig
    \/ Return

\* the source files change between two calls
EditNext ==
    \/ DoAddYear
    \/ DoRemoveYear
    \/ DoResize
    \/ DoEdit

Next == (LoadNext \/ EditNext) /\ UNCHANGED <<coordVars, timeVars, normVars, cleanVars, enrichVars, raceVars, infraVars>>

\* loads and changes of the source files, from plain layouts
Spec == Init /\ [][Next]_vars

\* loads over every layout of the source files, the files left alone
InitLoad == LoaderInit(DirTemplatesWide) /\ CoordIdle /\ TimeIdle /\ NormIdle /\ CleanIdle /\ EnrichIdle /\ RaceIdle /\ InfraIdle
NextLoad == LoadNext /\ UNCHANGED <<coordVars, timeVars, normVars, cleanVars, enrichVars, raceVars, infraVars>>
SpecLoad == InitLoad /\ [][NextLoad]_vars

\* process_coordinates on every row of the input sets
InitCoord == LoaderInit({NoDir}) /\ CoordInit /\ TimeIdle /\ NormIdle /\ CleanIdle /\ EnrichIdle /\ RaceIdle /\ InfraIdle
NextCoord == (ProcessCoordinates \/ ProcessCoordinatesRaises) /\ UNCHANGED <<loaderVars, timeVars, normVars, cleanVars, enrichVars, raceVars, infraVars>>
SpecCoord == InitCoord /\ [][NextCoord]_vars

\* process_timestamp on every frame of the input sets
InitTime == LoaderInit({NoDir}) /\ CoordIdle /\ TimeInit /\ NormIdle /\ CleanIdle /\ EnrichIdle /\ RaceIdle /\ InfraIdle
NextTime == (ProcessTimestamp \/ ProcessTimestampRaises) /\ UNCHANGED <<loaderVars, coordVars, normVars, cleanVars, enrichVars, raceVars, infraVars>>
SpecTime == InitTime /\ [][NextTime]_vars

\* normalize_columns, twice, on every table of the input sets
InitNorm == LoaderInit({NoDir}) /\ CoordIdle /\ TimeIdle /\ NormInit /\ CleanIdle /\ EnrichIdle /\ RaceIdle /\ InfraIdle
NextNorm == (NormalizeColumns \/ NormalizeAgain) /\ UNCHANGED <<loaderVars, coordVars, timeVars, cleanVars, enrichVars, raceVars, infraVars>>
SpecNorm == InitNorm /\ [][NextNorm]_vars

\* read_csv and clean_numeric_codes on every column of the input sets
InitClean == LoaderInit({NoDir}) /\ CoordIdle /\ TimeIdle /\ NormIdle /\ CleanInit /\ EnrichIdle /\ RaceIdle /\ InfraIdle
NextClean == CleanNumericCodes /\ UNCHANGED <<loaderVars, coordVars, timeVars, normVars, enrichVars, raceVars, infraVars>>
SpecClean == InitClean /\ [][NextClean]_vars

\* enrich_batch on every list of accidents, the tasks ending in any order
InitEnrich == LoaderInit({NoDir}) /\ CoordIdle /\ TimeIdle /\ NormIdle /\ CleanIdle /\ EnrichInit /\ RaceIdle /\ InfraIdle
NextEnrich == (EnrichBatch \/ DoWorkerStart \/ DoWorkerDone \/ Collect) /\ UNCHANGED <<loaderVars, coordVars, timeVars, normVars, cleanVars, raceVars, infraVars>>
SpecEnrich == InitEnrich /\ [][NextEnrich]_vars

\* loads, changes of the source files at any moment, and interruptions
InitRace == LoaderInit(RaceTemplates) /\ CoordIdle /\ TimeIdle /\ NormIdle /\ CleanIdle /\ EnrichIdle /\ RaceIdle /\ InfraIdle
NextRace == (DoRaceCall \/ DoRaceTask \/ RaceAggregate \/ RaceWriteSig \/ RaceReturn \/ Interrupt \/ DoChangeFile) /\ UNCHANGED <<coordVars, timeVars, normVars, cleanVars, enrichVars, infraVars>>
SpecRace == InitRace /\ [][NextRace]_vars

\* calls of get_infrastructure, the service answering anything
InitInfra == LoaderInit({NoDir}) /\ CoordIdle /\ TimeIdle /\ NormIdle /\ CleanIdle /\ EnrichIdle /\ RaceIdle /\ InfraInit
NextInfra == (DoInfraCall \/ DoInfraAttempt \/ InfraReturn) /\ UNCHANGED <<loaderVars, coordVars, timeVars, normVars, cleanVars, enrichVars, raceVars>>
SpecInfra == InitInfra /\ [][NextInfra]_vars

TypeOK ==
    /\ pc \in {"idle", "tasks", "dumped", "done"}
    /\ outcome \in {"none", "running", "hit", "reloaded", "raised", "interrupted"}
    /\ edits \in 0..MaxEdits

\* ---------------------------------------------------------------- claims
YearDirs(fsys) == {y \in Years : fsys[y].present}
RowsOfYear(tbl, y) == SelectSeq(tbl, LAMBDA r : r[1] = y)
SeqRange(q) == {q[i] : i \in 1..Len(q)}

\* C1: a call with force_reload false that finds the cache file and the
\* signature file, the stored signature equal to the one recomputed from
\* the year directories, returns the cached dataset, calls load_year for
\* no year and leaves both files as they were.
C1_CacheHit ==
    (/\ pc # "idle"
     /\ ~callForce
     /\ preCache.exists
     /\ preSig.exists
     /\ preSig.val = get_data_signature(fsAtCall))
    => /\ pc = "done"
       /\ outcome = "hit"
       /\ ret = preCache.data
       /\ parsed = {}
       /\ cache = preCache
       /\ sigFile = preSig

\* a hit after file contents were edited with every byte size unchanged
C1_Witness ==
    /\ pc = "done"
    /\ outcome = "hit"
    /\ ~callForce
    /\ prePhase = "content"
    /\ \E y \in Years : fs[y].present /\ ~YearFails(fs, y)

\* C2: after a load that wrote the cache, one change of the source files
\* (a readable year directory added, a year directory removed, the byte
\* size of a file read by load_year changed) makes the next call with
\* force_reload false reparse instead of returning the cached dataset.
C2_Invalidation ==
    (pc = "done" /\ ~callForce /\ prePhase \in {"add", "remove", "size"})
    => outcome # "hit"

\* C3: a call that takes the reload path raises if and only if no year
\* produced data (no year directory, or load_year returned None for all).
C3_TotalFailure ==
    (pc = "done" /\ outcome # "hit")
    => (outcome = "raised" <=> \A y \in Years : results[y].status # "ok")

\* C4: when at least one year loads, each output table holds, for every
\* year whose load_year succeeded, exactly that year's rows of the table,
\* and no row of a year whose load_year failed; a year whose vehicles file
\* is missing contributes no row to any table.
C4_SuccessfulYearsOnly ==
    (pc = "done" /\ outcome = "reloaded")
    => \A t \in TableNames, y \in Years :
          /\ RowsOfYear(ret[t], y) =
                (IF results[y].status = "ok" THEN results[y].data[t] ELSE <<>>)
          /\ (fsAtCall[y].present /\ ~fsAtCall[y].files["vehicules"].exists)
                => RowsOfYear(ret[t], y) = <<>>

C4_Witness ==
    /\ pc = "done"
    /\ outcome = "reloaded"
    /\ \E y \in Years : fsAtCall[y].present /\ ~fsAtCall[y].files["vehicules"].exists
    /\ \E y \in Years : ret["accidents"] = results[y].data["accidents"]
                        /\ results[y].status = "ok"

\* C5: load_year never raises: a year with a missing file of any kind, or
\* with a file whose reading or cleaning raises, yields None, and
\* load_all_years still runs load_year on every year directory and
\* aggregates the years that loaded (frames that pd.concat cannot put
\* together are the matter of C3, not of a year that failed).
C5_LoadYearNeverRaises ==
    /\ \A y \in Years :
          results[y].status # "pending"
          => /\ results[y].status # "raised"
             /\ (\E k \in KeywordSet : \/ ~fsAtCall[y].files[k].exists
                                      \/ fsAtCall[y].files[k].bad)
                   => results[y].status = "none"
    /\ (pc = "done" /\ outcome # "hit")
          => /\ parsed = YearDirs(fsAtCall)
             /\ (/\ \E y \in Years : results[y].status = "ok"
                 /\ ~ColumnsClash(GoodResults(ResultList(years, results, completion))))
                   => outcome = "reloaded"

C5_Witness ==
    /\ pc = "done"
    /\ outcome = "reloaded"
    /\ \E y \in Years : /\ \E k \in KeywordSet : fsAtCall[y].files[k].bad
                        /\ results[y].status = "none"
    /\ \E y \in Years : results[y].status = "ok" /\ ret["lieux"] = results[y].data["lieux"]

\* the rows of table t in the source files of the years y..last that
\* loaded, by ascending year, each file's rows in file order
RECURSIVE SourceRows(_, _, _, _)
SourceRows(fsys, res, t, y) ==
    IF y \notin Years THEN <<>>
    ELSE (IF res[y].status = "ok"
          THEN RowsOf(y, KwOfTable(t), fsys[y].files[KwOfTable(t)].ver)
          ELSE <<>>) \o SourceRows(fsys, res, t, y + 1)

\* C6: in whatever order the per-year tasks complete, each output table
\* lists the rows by ascending year, within a year in the file's row
\* order, repeated rows kept.
C6_DeterministicOrder ==
    (pc = "done" /\ outcome = "reloaded")
    => \A t \in TableNames : ret[t] = SourceRows(fsAtCall, results, t, YearBase)

\* two years loaded, the later year's task finished first, a repeated row kept
C6_Witness ==
    /\ pc = "done"
    /\ outcome = "reloaded"
    /\ Len(completion) >= 2
    /\ completion[1] > completion[2]
    /\ results[completion[1]].status = "ok"
    /\ results[completion[2]].status = "ok"
    /\ \E t \in TableNames : Len(ret[t]) > Cardinality(SeqRange(ret[t]))

\* C7: with force_reload true the cache is not consulted, even when a
\* cache with a matching signature exists: load_year runs on every year
\* directory and, on success, the cache file holds the returned dataset
\* and the signature file the current signature.
C7_ForcedReload ==
    (pc = "done" /\ callForce)
    => /\ outcome # "hit"
       /\ parsed = YearDirs(fsAtCall)
       /\ outcome = "reloaded"
             => /\ cache = [exists |-> TRUE, data |-> ret]
                /\ sigFile = [exists |-> TRUE, val |-> get_data_signature(fsAtCall)]

\* a forced reload over a cache whose signature matched but whose data was stale
C7_Witness ==
    /\ pc = "done"
    /\ callForce
    /\ outcome = "reloaded"
    /\ preCache.exists
    /\ preSig.exists
    /\ preSig.val = curSig
    /\ cache # preCache

\* the text of a cell has no decimal separator: the legacy encoding
IsLegacyText(cell) ==
    /\ cell.col /\ ~cell.null
    /\ ~Has(cell.str, ",") /\ ~Has(cell.str, ".")
IsNegativeText(cell) == Strip(cell.str) # <<>> /\ Head(Strip(cell.str)) = "-"

\* C8: in the row process_coordinates returns, lat is non-null if and only
\* if long is non-null, also when the lat or the long column is absent.
C8_PairInvariant ==
    cpc = "done" => (outLat.null <=> outLong.null)

\* the lat column is absent, the long cell alone parses to a value, and
\* the row comes out with both cells null
C8_Witness ==
    /\ cpc = "done"
    /\ ~rawLat.col
    /\ ~midLong.null
    /\ outLat.null /\ outLong.null

\* the value a text decodes to before validation, in its encoding
DecodedValue(cell) ==
    LET sv == Strip(cell.str)
        digits == ZFill(LegacyDigits(sv), PadWidth)
        v == FloatOf(Prefix(digits, DegreeDigits), SubSeq(digits, DegreeDigits + 1, PadWidth))
    IN IF Has(sv, ",") \/ Has(sv, ".")
       THEN ParseFloat(CommaToDot(sv))
       ELSE [ok |-> LegacyDigits(sv) # <<>>, neg |-> IsNegativeText(cell),
             int |-> v.int, frac |-> v.frac]

\* what C9 expects of the parser on an axis whose bound is b
ExpectedOnAxis(cell, b) ==
    LET v == DecodedValue(cell)
    IN IF cell.null \/ Strip(cell.str) = <<>>
          \/ Lower(Strip(cell.str)) \in {<<"n", "a", "n">>, <<"n", "o", "n", "e">>}
          \/ ~v.ok \/ IsZero(v) \/ Exceeds(v, b)
       THEN NullCoord
       ELSE Coord(v.neg, v.int, v.frac)

\* C9: the parser returns null exactly when the input is null, empty,
\* whitespace, 'nan' or 'none', or the decoded value is zero, or its
\* magnitude exceeds the bound of its axis (90 for latitude, 180 for
\* longitude); otherwise it returns the decoded value.
C9_AxisValidation ==
    cpc = "done"
    => /\ rawLat.col => midLat = ExpectedOnAxis(rawLat, LatBound)
       /\ rawLong.col => midLong = ExpectedOnAxis(rawLong, LongBound)

\* the reference rule on a sign and a digit string: pad to 6 digits, a
\* 6-digit string splits 1 + 5, a longer one 2 + the rest
ReferenceRule(neg, ds) ==
    LET padded == ZFill(ds, 6)
        v == IF Len(padded) = 6
             THEN FloatOf(SubSeq(padded, 1, 1), SubSeq(padded, 2, 6))
             ELSE FloatOf(SubSeq(padded, 1, 2), SubSeq(padded, 3, Len(padded)))
    IN Coord(neg, v.int, v.frac)

\* C10 as stated: every value parsed from a text without decimal
\* separator is the value of the reference rule on all its digits.
C10_LegacyDecodingAllLengths ==
    cpc = "done"
    => /\ (IsLegacyText(rawLat) /\ ~midLat.null)
            => midLat = ReferenceRule(IsNegativeText(rawLat), LegacyDigits(Strip(rawLat.str)))
       /\ (IsLegacyText(rawLong) /\ ~midLong.null)
            => midLong = ReferenceRule(IsNegativeText(rawLong), LegacyDigits(Strip(rawLong.str)))

\* the reference rule on the first 7 digits, null when the value is zero
\* or above 90
ReferenceOnSeven(cell) ==
    LET r == ReferenceRule(IsNegativeText(cell), Prefix(LegacyDigits(Strip(cell.str)), 7))
    IN IF IsZero(r) \/ Exceeds(r, 90) THEN NullCoord ELSE r

\* C10 amended: a text without decimal separator parses to the value of
\* the reference rule applied to its first 7 digits (to all its digits
\* when it has at most 7), null when that value is zero or above 90.
C10_LegacyDecoding ==
    cpc = "done"
    => /\ IsLegacyText(rawLat) => midLat = ReferenceOnSeven(rawLat)
       /\ IsLegacyText(rawLong) => midLong = ReferenceOnSeven(rawLong)

\* a signed text of more than 7 digits is parsed to a value
C10_Witness ==
    /\ cpc = "done"
    /\ IsLegacyText(rawLong)
    /\ IsNegativeText(rawLong)
    /\ Len(LegacyDigits(Strip(rawLong.str))) > 7
    /\ ~midLong.null
    /\ midLong.frac # <<>>

\* ------------------------------------------------------------------ C11
\* the frame as read_csv types it
TimeFrame(c) == ColumnOf(tCsv, c)
\* an hour-minute value: blank, or digits with or without the colon
ClockLike(v) ==
    LET shown == DropColons(AsStr(v))
    IN v.k = "nan" \/ (shown # <<>> /\ \A i \in 1..Len(shown) : IsDigit(shown[i]))
\* every cell of the frame is a year, a month, a day, an hour-minute value
\* (month and day may be blank); text that is no number is left to C19
CalendarValuesOnly ==
    /\ tCols = TimeColumns
    /\ \A i \in 1..Len(tCsv) :
          /\ ClockLike(TimeFrame("hrmn")[i])
          /\ TimeFrame("an")[i].k = "int"
          /\ TimeFrame("mois")[i].k # "text"
          /\ TimeFrame("jour")[i].k # "text"
\* year, month and day of row i: two-digit years count from 2000, a blank
\* month or day counts as 1
YearOfRow(i) == LET a == TimeFrame("an")[i].int IN IF a < CenturyLimit THEN a + Century ELSE a
MonthOfRow(i) == IF TimeFrame("mois")[i].k = "nan" THEN 1 ELSE TimeFrame("mois")[i].int
DayOfRow(i) == IF TimeFrame("jour")[i].k = "nan" THEN 1 ELSE TimeFrame("jour")[i].int
IsRealDate(y, m, d) == m \in 1..12 /\ d >= 1 /\ d <= DaysIn(y, m)

C12_Idempotent == npc = "twice" => nTwice = nOnce

\* an alias written in capitals was lowered and renamed by the first pass
C12_Witness ==
    /\ npc = "twice"
    /\ \E i \in 1..Len(nRaw) :
          /\ nRaw[i] = ColumnName("accident_id", "upper")
          /\ nOnce[i] = ColumnName("num_acc", "lower")
          /\ nTwice[i] = nOnce[i]

\* ------------------------------------------------------------------ C13
\* a department code of one or two digits, written as text or as a float
\* rendering with a trailing ".0"
DepDigits(str) ==
    LET n == Len(str)
        whole == IF n >= 2 /\ SubSeq(str, n - 1, n) = <<".", "0">> THEN SubSeq(str, 1, n - 2) ELSE str
    IN whole
IsDepCode(str) ==
    /\ Len(DepDigits(str)) \in 1..DepWidth
    /\ \A i \in 1..Len(DepDigits(str)) : IsDigit(DepDigits(str)[i])
    /\ NumOf(DepDigits(str)) > 0

\* C13: every department code of one or two digits, in whichever of its
\* renderings the column holds it, is stored as that code in two
\* characters, zero-padded.
C13_DepartmentPreserved ==
    (kpc = "done" /\ kField = "dep") =>
        \A i \in 1..Len(kCsv) :
            IsDepCode(kCsv[i]) => kOut[i] = TextV(ZFill(DigitsOf(NumOf(DepDigits(kCsv[i]))), DepWidth))

\* ------------------------------------------------------------------ C14
NumericFields == {"pr", "pr1", "larrout", "lartpc", "nbv"}
WidthFields == {"larrout", "lartpc"}
MinusOneTexts == {<<"-", "1">>, <<" ", "-", "1", " ">>}
WordSentinels == {<<"s", "a", "n", "s">>, <<"N", "/", "A">>, MultiValue}
ParenOne == <<"(", "1", ")">>
CommaValue == <<"5", ",", "5">>
MinusOne == FloatV(TRUE, 1, <<>>)
PlusOne == FloatV(FALSE, 1, <<>>)
FiveAndHalf == FloatV(FALSE, 5, <<"5">>)

C15_IdentifierKept ==
    (kpc = "done" /\ kField = "num_acc") =>
        \A i \in 1..Len(kCsv) : ~IsNaText(kCsv[i]) => kOut[i] = TextV(kCsv[i])

\* ------------------------------------------------------------------ C16
\* every keyword has a file in the directory, in some letter case
AllFilesThere(dir) == dir.present /\ \A k \in KeywordSet : dir.files[k].exists

\* C16: find_file reports a file missing only when no file name of the year
\* directory carries the keyword, in whatever letter case: a year whose four
\* files are there and readable is located and loaded.
C16_CaseInsensitiveLookup ==
    \A y \in parsed :
        (AllFilesThere(fsAtCall[y]) /\ \A k \in KeywordSet : ~fsAtCall[y].files[k].bad)
            => /\ \A k \in KeywordSet : find_file(fsAtCall[y], k)
               /\ results[y].status = "ok"

\* ------------------------------------------------------------------ C17
AnsweredWith(kind) == {i \in 1..Len(eList) : eAnswer[i].kind = kind}

IsValidHHMM(str) ==
    /\ Len(str) = HrmnWidth
    /\ \A i \in 1..Len(str) : IsDigit(str[i])
    /\ NumOf(SubSeq(str, 1, 2)) <= 23
    /\ NumOf(SubSeq(str, 3, 4)) <= 59

\* C18: with the hour-minute value turned into a zero-padded text of four
\* characters, process_timestamp keeps hour HH and minute MM when the text
\* is a valid HHMM and takes 00:00 for every other text.
C18_HourMinuteRule ==
    (tpc = "done" /\ "hrmn" \in tCols) =>
        \A i \in 1..Len(tCsv) :
            LET str == HrmnText(TimeFrame("hrmn")[i])
            IN IF IsValidHHMM(str)
               THEN /\ tOut[i].heure = IntV(FALSE, NumOf(SubSeq(str, 1, 2)))
                    /\ tOut[i].minute = IntV(FALSE, NumOf(SubSeq(str, 3, 4)))
               ELSE /\ tOut[i].heure = IntV(FALSE, 0)
                    /\ tOut[i].minute = IntV(FALSE, 0)

\* ------------------------------------------------------------------ C19
\* the frame without its row i
WithoutRow(csv, i) == SubSeq(csv, 1, i - 1) \o SubSeq(csv, i + 1, Len(csv))
IsNumberText(str) == IsNaText(str) \/ ParseFloat(Strip(str)).ok
\* a year, month or day that is text and no number, or an hour-minute that
\* is no digits around a colon or is longer than four digits
Malformed(row) ==
    \/ ("an" \in tCols /\ ~IsNumberText(row.an))
    \/ ("mois" \in tCols /\ ~IsNumberText(row.mois))
    \/ ("jour" \in tCols /\ ~IsNumberText(row.jour))
    \/ /\ "hrmn" \in tCols
       /\ \/ \E k \in 1..Len(row.hrmn) : ~IsDigit(row.hrmn[k]) /\ row.hrmn[k] # ":"
          \/ Len(DropColons(row.hrmn)) > HrmnWidth

\* C19: process_timestamp never raises; a row with a malformed year,
\* month, day or hour-minute gets a null timestamp and every other row the
\* timestamp it gets in the frame without that row.
C19_NeverAborts ==
    tpc # "raw" =>
        /\ tpc = "done"
        /\ \A i \in 1..Len(tCsv) :
              Malformed(tCsv[i]) =>
                  /\ tOut[i].timestamp.null
                  /\ \A j \in 1..(Len(tCsv) - 1) :
                        ~process_timestamp(WithoutRow(tCsv, i), tCols, tYear).raised
                        => tOut[IF j < i THEN j ELSE j + 1].timestamp
                             = process_timestamp(WithoutRow(tCsv, i), tCols, tYear).rows[j].timestamp

\* ------------------------------------------------------------------ C20
\* names different when written in lower case: no two columns of the table
\* as read differ by letter case only
DistinctLowered(cols) == \A i, j \in 1..Len(cols) : cols[i].low = cols[j].low => i = j

\* C20: an alias is renamed only when its canonical name is not a column of
\* the table already, and is left as it is otherwise, so that the table
\* normalize_columns returns has no two columns of one name.
C20_NoCollision ==
    (npc # "raw" /\ DistinctLowered(nRaw)) =>
        /\ Distinct(nOnce)
        /\ \A i \in 1..Len(nRaw) :
              (nRaw[i].low \in Aliases /\ \E j \in 1..Len(nRaw) : nRaw[j].low = AliasOf[nRaw[i].low])
                  => nOnce[i] = LowerName(nRaw[i])

\* C21: a call that takes the reload path and returns has left in the cache
\* file exactly the dataset it returns and in the signature file the
\* signature of the source files as they were when the call started; the
\* two files are as the call found them while the per-year tasks run, and
\* the cache file is written only once every per-year task has ended.
C21_ConsistentOverwrite ==
    /\ pc = "tasks" => (cache = preCache /\ sigFile = preSig)
    /\ pc = "dumped" => (parsed = SeqRange(years) /\ sigFile = preSig)
    /\ (pc = "done" /\ outcome = "reloaded")
          => /\ parsed = SeqRange(years)
             /\ cache = [exists |-> TRUE, data |-> ret]
             /\ sigFile = [exists |-> TRUE, val |-> get_data_signature(fsAtCall)]

C21_Witness ==
    /\ pc = "done"
    /\ outcome = "reloaded"
    /\ Len(years) >= 2
    /\ preCache.exists /\ preSig.exists
    /\ cache # preCache
    /\ sigFile # preSig
    /\ get_data_signature(fs) # get_data_signature(fsAtCall)

\* C22: a call that returns the cached dataset returns a dataset parsed
\* from source files whose signature is the signature of the source files
\* as they are at the call, whatever loads, changes of the source files and
\* interruptions came before.
C22_ServedCacheMatchesSignature ==
    (pc = "done" /\ outcome = "hit")
    => get_data_signature(cacheFrom) = get_data_signature(fsAtCall)

\* C25: a call on the reload path that finds no year directory, or whose
\* load_year returns None for every year, raises and leaves the cache file
\* and the signature file as they were when it started, with force_reload
\* or without.
C25_FailedLoadFrame ==
    (pc = "done" /\ outcome # "hit" /\ \A y \in Years : results[y].status # "ok")
    => /\ outcome = "raised"
       /\ cache = preCache
       /\ sigFile = preSig

C25_Witness ==
    /\ pc = "done"
    /\ outcome = "raised"
    /\ callForce
    /\ preCache.exists /\ preSig.exists
    /\ cache = preCache /\ sigFile = preSig

\* a network error or a rate-limit answer
IsTransient(answer) == answer.net \/ answer.code = RateLimited

\* C23: a run of get_infrastructure that ends on a network error or on a
\* 429 answer is followed by another run until max_tries runs were made, so
\* that a call which ends on such a failure has made max_tries runs; and a
\* call answered from the store never gets a null that such a failure left.
C23_RetriedBeforeDegrading ==
    /\ (gpc = "done" /\ ~gFromStore /\ IsTransient(gLast)) => gTries = MaxTries
    /\ (gpc = "done" /\ gFromStore)
          => ~(gResult.null /\ IsTransient(gStore[gArgs].from))

\* str(value) of a floating-point value that is a whole number: its
\* digits, then ".0"
IsFloatOfWhole(str) ==
    /\ Len(str) >= 3
    /\ SubSeq(str, Len(str) - 1, Len(str)) = <<".", "0">>
    /\ \A i \in 1..(Len(str) - 2) : IsDigit(str[i])
    /\ str[1] # "0"
WholeDigits(str) == SubSeq(str, 1, Len(str) - 2)

\* C24: a legacy compact coordinate that arrives as a floating-point number
\* (5055737.0) is decoded to the value its digits give when they arrive as
\* an integer or as text (5055737, i.e. 50.55737).
C24_TypeIndependent ==
    (cpc = "done" /\ rawLat.col /\ ~rawLat.null /\ IsFloatOfWhole(rawLat.str))
    => midLat = parse_gps_coordinate(Text(WholeDigits(rawLat.str)), "LAT")

====
